---- MODULE Spec2Model ----
(***************************************************************************)
(* Workspace registry (database.js), workspace request handlers            *)
(* (app/server.js) and the OAuth routes (app/server.js, auth-common.js)    *)
(* of ops-frontier/iac-workshop.                                           *)
(*                                                                         *)
(* Nine specifications share the module:                                   *)
(*   RegistrySpec  the exported database functions called directly,        *)
(*   AcquireSpec   concurrent acquireWorkspace calls on one record,        *)
(*   Spec          the create, start, stop and delete handlers of          *)
(*                 app/server.js over the registry and the container       *)
(*                 runtime, behind the authentication middleware (NULL is  *)
(*                 the user of an unauthenticated session),                *)
(*   RetrySpec     Spec from a registry whose record is stopped or in      *)
(*                 error,                                                  *)
(*   ApiSpec       Spec with the read-only routes next to them,            *)
(*   ViewSpec      the read-only routes over a populated registry, next    *)
(*                 to release and acquire of workspaces,                   *)
(*   LiveSpec      Spec with every Runtime call settling,                  *)
(*   ShareSpec     Spec next to release and acquire of workspaces,         *)
(*   AuthSpec      the OAuth initiate/callback routes over sessions.       *)
(* better-sqlite3 is synchronous and Node runs one callback at a time, so  *)
(* each database call and each synchronous stretch of a handler between    *)
(* two awaits is one atomic action.                                        *)
(***************************************************************************)
EXTENDS Integers, Sequences, FiniteSets, TLC

\* ------------------------------------------------------------- bounds
NumUsers == 2
MaxId == 2
NumNames == 2
MaxContainers == 2
NumHandlers == 2

Users == 1..NumUsers
Ids == 1..MaxId
Names == 1..NumNames
Handles == 1..MaxContainers
Handlers == 1..NumHandlers

\* SQL NULL / JavaScript null for a user id or a container id.
NULL == 0
\* JavaScript null for the optional expectedStatus parameter.
NoStatus == "null"

Statuses == {"stopped", "starting", "running", "stopping", "error"}

\* OAuth: sessions, the nonces the server can issue, callback requests.
NumSessions == 2
NumNonces == 2
NumCallbacks == 2

Sessions == 1..NumSessions
Nonces == 1..NumNonces
Callbacks == 1..NumCallbacks
\* JavaScript undefined for session.oauthState or query.state.
Absent == 0
\* A state value the server never issued.
Forged == NumNonces + 1
QueryStates == Nonces \cup {Absent, Forged}

\* Logins the model follows; each one regenerates the session id.
MaxLogins == 2
\* Session ids: those of the browsers' pre-login sessions, then the ids
\* session.regenerate hands out.
SessionIds == 1..(NumSessions + MaxLogins)

\* Organizations, and '' for "no target organization configured".
NumOrgs == 2
Orgs == 1..NumOrgs
NoOrg == 0

\* returnTo values a request may ask for; none; the configured default.
NumReturnTos == 1
ReturnTos == 1..NumReturnTos
NoReturn == 0
DefaultReturnTo == NumReturnTos + 1

\* A session with nothing stored in it (also: a request without a cookie).
NoSession == [oauthState |-> Absent, user |-> 0, returnTo |-> NoReturn]

\* A callback slot with no request in it.
IdleCallback == [pc |-> "idle", sid |-> 0, state |-> Absent, seen |-> Absent,
                 resp |-> 0, why |-> "none", exchanged |-> FALSE, authed |-> FALSE,
                 user |-> 0, orgs |-> {}, hooked |-> FALSE, to |-> NoReturn,
                 newSid |-> 0, saved |-> FALSE]

\* The initiate slot with no request in it.
IdleInitiate == [pc |-> "idle", sid |-> 0, nonce |-> Absent, resp |-> 0,
                 saved |-> FALSE, returnTo |-> NoReturn]

VARIABLES
  workspaces,   \* the workspaces table: id -> row, for the ids that exist
  nextId,       \* AUTOINCREMENT: the largest id ever assigned
  lastCall,     \* RegistrySpec: the last database call, its inputs and result
  acq,          \* AcquireSpec: each user's acquireWorkspace outcome
  acqInit,      \* AcquireSpec: the record before any acquire call
  req,          \* Spec: each request handler's position, locals and response
  containers,   \* Spec: the container handles that exist in the Runtime
  nextCid,      \* Spec: the last container handle the Runtime issued
  impl,         \* AuthSpec: which OAuth routes run ("server" or "common")
  targetOrganization, \* AuthSpec: the organization configured, or NoOrg
  sess,         \* AuthSpec: the session store: session id -> session data
  issued,       \* AuthSpec: how many nonces crypto.randomBytes has produced
  asked,        \* AuthSpec: the returnTo the initiate of each nonce put on its session
  logins,       \* AuthSpec: how many times a session id was regenerated
  passed,       \* AuthSpec: the nonces some callback's state check has let through
  ini,          \* AuthSpec: the initiate request's position and response
  cb            \* AuthSpec: each callback request's position and response

vars == <<workspaces, nextId, lastCall, acq, acqInit, req, containers, nextCid,
          impl, targetOrganization, sess, issued, asked, logins, passed, ini, cb>>
regVars == <<workspaces, nextId>>
callVars == <<lastCall, acq, acqInit>>
handlerVars == <<req, containers, nextCid>>
authVars == <<impl, targetOrganization, sess, issued, asked, logins, passed, ini, cb>>
authConfig == <<impl, targetOrganization>>

\* ------------------------------------------------------ the workspaces table
\* One row of CREATE TABLE workspaces.
Row(userId, name, containerId, status) ==
  [user_id |-> userId, name |-> name, container_id |-> containerId, status |-> status]

\* JavaScript undefined, as getWorkspace returns it for an unknown id.
Undefined == Row(NULL, 0, NULL, "undefined")

EmptyTable == [i \in {} |-> Row(NULL, 1, NULL, "stopped")]

\* SQL "col = ?": never true when the parameter is NULL.
SqlEq(col, param) == param # NULL /\ col = param

\* UPDATE ... WHERE over the table: rows in `hit` are replaced by set[i].
RunResult(tbl, changes) == [tbl |-> tbl, changes |-> changes, error |-> FALSE]

\* getWorkspace: the row, or undefined (here: absent from the domain).
getWorkspace(tbl, id) == IF id \in DOMAIN tbl THEN tbl[id] ELSE Undefined

HasWorkspace(tbl, id) == id \in DOMAIN tbl

\* An insert that replaces the record holding the name (INSERT OR REPLACE).
createWorkspaceOrReplace(tbl, seq, userId, name, containerId, status) ==
  LET kept == {i \in DOMAIN tbl : tbl[i].name # name}
  IN [tbl |-> [i \in kept \cup {seq + 1} |->
                 IF i = seq + 1 THEN Row(userId, name, containerId, status)
                 ELSE tbl[i]],
      changes |-> 1, error |-> FALSE, seq |-> seq + 1]

\* createWorkspace: INSERT; UNIQUE(name) makes a duplicate name throw.
\* An insert into a table without AUTOINCREMENT: the new id is one above the
\* largest id in the table.
createWorkspaceMaxRowid(tbl, seq, userId, name, containerId, status) ==
  LET new == IF DOMAIN tbl = {} THEN 1
             ELSE (CHOOSE i \in DOMAIN tbl : \A j \in DOMAIN tbl : j <= i) + 1
  IN IF \E i \in DOMAIN tbl : tbl[i].name = name
     THEN [tbl |-> tbl, changes |-> 0, error |-> TRUE, seq |-> seq]
     ELSE [tbl |-> [i \in DOMAIN tbl \cup {new} |->
                      IF i = new THEN Row(userId, name, containerId, status)
                      ELSE tbl[i]],
           changes |-> 1, error |-> FALSE, seq |-> new]

createWorkspace(tbl, seq, userId, name, containerId, status) ==
  IF \E i \in DOMAIN tbl : tbl[i].name = name
  THEN [tbl |-> tbl, changes |-> 0, error |-> TRUE, seq |-> seq]
  ELSE [tbl |-> [i \in DOMAIN tbl \cup {seq + 1} |->
                   IF i = seq + 1 THEN Row(userId, name, containerId, status)
                   ELSE tbl[i]],
        changes |-> 1, error |-> FALSE, seq |-> seq + 1]

\* An update whose WHERE clause names no id.
updateWorkspaceStatusAnyId(tbl, id, status, expectedStatus) ==
  LET hit == IF expectedStatus # NoStatus
             THEN {i \in DOMAIN tbl : tbl[i].status = expectedStatus}
             ELSE DOMAIN tbl
  IN RunResult([i \in DOMAIN tbl |->
                  IF i \in hit THEN [tbl[i] EXCEPT !.status = status] ELSE tbl[i]],
               Cardinality(hit))

updateWorkspaceStatus(tbl, id, status, expectedStatus) ==
  LET hit == IF expectedStatus # NoStatus
             THEN {i \in DOMAIN tbl : i = id /\ tbl[i].status = expectedStatus}
             ELSE {i \in DOMAIN tbl : i = id}
  IN RunResult([i \in DOMAIN tbl |->
                  IF i \in hit THEN [tbl[i] EXCEPT !.status = status] ELSE tbl[i]],
               Cardinality(hit))

\* An update of the container that ignores the expected status.
updateWorkspaceContainerUnchecked(tbl, id, containerId, status, expectedStatus) ==
  LET hit == {i \in DOMAIN tbl : i = id}
  IN RunResult([i \in DOMAIN tbl |->
                  IF i \in hit
                  THEN [tbl[i] EXCEPT !.container_id = containerId, !.status = status]
                  ELSE tbl[i]],
               Cardinality(hit))

updateWorkspaceContainer(tbl, id, containerId, status, expectedStatus) ==
  LET hit == IF expectedStatus # NoStatus
             THEN {i \in DOMAIN tbl : i = id /\ tbl[i].status = expectedStatus}
             ELSE {i \in DOMAIN tbl : i = id}
  IN RunResult([i \in DOMAIN tbl |->
                  IF i \in hit
                  THEN [tbl[i] EXCEPT !.container_id = containerId, !.status = status]
                  ELSE tbl[i]],
               Cardinality(hit))

updateWorkspaceOwner(tbl, id, userId, expectedStatus) ==
  LET hit == {i \in DOMAIN tbl : i = id /\ tbl[i].status = expectedStatus}
  IN RunResult([i \in DOMAIN tbl |->
                  IF i \in hit THEN [tbl[i] EXCEPT !.user_id = userId] ELSE tbl[i]],
               Cardinality(hit))

\* A release that forgets the owner check.
releaseWorkspaceNoOwnerCheck(tbl, id, expectedUserId, expectedStatus) ==
  LET hit == {i \in DOMAIN tbl : i = id /\ tbl[i].status = expectedStatus}
  IN RunResult([i \in DOMAIN tbl |->
                  IF i \in hit THEN [tbl[i] EXCEPT !.user_id = NULL] ELSE tbl[i]],
               Cardinality(hit))

releaseWorkspace(tbl, id, expectedUserId, expectedStatus) ==
  LET hit == {i \in DOMAIN tbl : i = id /\ SqlEq(tbl[i].user_id, expectedUserId)
                                        /\ tbl[i].status = expectedStatus}
  IN RunResult([i \in DOMAIN tbl |->
                  IF i \in hit THEN [tbl[i] EXCEPT !.user_id = NULL] ELSE tbl[i]],
               Cardinality(hit))

\* An acquire that forgets "user_id IS NULL".
acquireWorkspaceNoNullCheck(tbl, id, userId, expectedStatus) ==
  LET hit == {i \in DOMAIN tbl : i = id /\ tbl[i].status = expectedStatus}
  IN RunResult([i \in DOMAIN tbl |->
                  IF i \in hit THEN [tbl[i] EXCEPT !.user_id = userId] ELSE tbl[i]],
               Cardinality(hit))

acquireWorkspace(tbl, id, userId, expectedStatus) ==
  LET hit == {i \in DOMAIN tbl : i = id /\ tbl[i].user_id = NULL
                                        /\ tbl[i].status = expectedStatus}
  IN RunResult([i \in DOMAIN tbl |->
                  IF i \in hit THEN [tbl[i] EXCEPT !.user_id = userId] ELSE tbl[i]],
               Cardinality(hit))

deleteWorkspace(tbl, id) ==
  LET hit == {i \in DOMAIN tbl : i = id}
  IN RunResult([i \in DOMAIN tbl \ hit |-> tbl[i]], Cardinality(hit))

\* getUserWorkspaces: WHERE user_id = ? OR user_id IS NULL.
getUserWorkspacesOwnedOnly(tbl, userId) ==
  {i \in DOMAIN tbl : SqlEq(tbl[i].user_id, userId)}

getUserWorkspaces(tbl, userId) ==
  {i \in DOMAIN tbl : SqlEq(tbl[i].user_id, userId) \/ tbl[i].user_id = NULL}

\* ---------------------------------------------------------- RegistrySpec
\* A caller invoking the exported database functions one at a time with
\* arbitrary arguments; lastCall records the call for the properties.
UserArgs == Users \cup {NULL}
ContainerArgs == {NULL, 1}
ExpectedArgs == Statuses \cup {NoStatus}

NoCall == [op |-> "none", id |-> 0, userId |-> NULL, expected |-> NoStatus,
           name |-> 0, containerId |-> NULL, status |-> NoStatus,
           existed |-> FALSE, pre |-> Undefined,
           changes |-> 0, error |-> FALSE, othersSame |-> TRUE]

\* Whether every row other than `id` is the same in both tables.
OthersSame(old, new, id) ==
  /\ DOMAIN old \ {id} = DOMAIN new \ {id}
  /\ \A i \in DOMAIN old \ {id} : new[i] = old[i]

Called(op, id, userId, expected, res) ==
  [op |-> op, id |-> id, userId |-> userId, expected |-> expected,
   name |-> 0, containerId |-> NULL, status |-> NoStatus,
   existed |-> HasWorkspace(workspaces, id), pre |-> getWorkspace(workspaces, id),
   changes |-> res.changes, error |-> res.error,
   othersSame |-> OthersSame(workspaces, res.tbl, id)]

\* A field of a JSON request body: left out, or a text (a sequence of
\* characters, possibly empty).
NotGiven == [given |-> FALSE, text |-> <<>>]
Given(text) == [given |-> TRUE, text |-> text]

\* The body of a request that sends none.
NoBody == [name |-> NotGiven, repoUrl |-> NotGiven]

\* A handler slot with no request in it.
IdleReq == [pc |-> "idle", op |-> "none", user |-> NULL, id |-> 0, name |-> 0,
            body |-> NoBody,
            workspace |-> Undefined, resp |-> 0, runtime |-> "none",
            expected |-> "none", changes |-> 0, peers |-> {}, rows |-> {}]

RegInit ==
  /\ workspaces = EmptyTable
  /\ nextId = 0
  /\ lastCall = NoCall
  /\ acq = [u \in Users |-> "idle"]
  /\ acqInit = Undefined
  /\ req = [h \in Handlers |-> IdleReq]
  /\ containers = {}
  /\ nextCid = 0
  /\ impl = "server"
  /\ targetOrganization = NoOrg
  /\ sess = [x \in SessionIds |-> NoSession]
  /\ issued = 0
  /\ asked = [n \in Nonces |-> NoReturn]
  /\ logins = 0
  /\ passed = {}
  /\ ini = IdleInitiate
  /\ cb = [c \in Callbacks |-> IdleCallback]

CallCreate ==
  \E u \in UserArgs, n \in Names, c \in ContainerArgs, st \in {"stopped", "running"} :
    /\ lastCall.op = "none"
    /\ nextId < MaxId
    /\ LET res == createWorkspace(workspaces, nextId, u, n, c, st)
       IN /\ workspaces' = res.tbl
          /\ nextId' = res.seq
          /\ lastCall' = [Called("create", res.seq, u, NoStatus, res)
                            EXCEPT !.name = n, !.containerId = c, !.status = st]
    /\ UNCHANGED <<acq, acqInit, handlerVars, authVars>>

CallUpdateStatus ==
  \E id \in Ids, st \in Statuses, e \in ExpectedArgs :
    /\ lastCall.op = "none"
    /\ LET res == updateWorkspaceStatus(workspaces, id, st, e)
       IN /\ workspaces' = res.tbl
          /\ lastCall' = [Called("updateStatus", id, NULL, e, res)
                            EXCEPT !.status = st]
    /\ UNCHANGED <<nextId, acq, acqInit, handlerVars, authVars>>

CallUpdateContainer ==
  \E id \in Ids, c \in ContainerArgs, st \in Statuses, e \in ExpectedArgs :
    /\ lastCall.op = "none"
    /\ LET res == updateWorkspaceContainer(workspaces, id, c, st, e)
       IN /\ workspaces' = res.tbl
          /\ lastCall' = [Called("updateContainer", id, NULL, e, res)
                            EXCEPT !.containerId = c, !.status = st]
    /\ UNCHANGED <<nextId, acq, acqInit, handlerVars, authVars>>

CallUpdateOwner ==
  \E id \in Ids, u \in UserArgs, e \in Statuses :
    /\ lastCall.op = "none"
    /\ LET res == updateWorkspaceOwner(workspaces, id, u, e)
       IN /\ workspaces' = res.tbl
          /\ lastCall' = Called("updateOwner", id, u, e, res)
    /\ UNCHANGED <<nextId, acq, acqInit, handlerVars, authVars>>

CallRelease ==
  \E id \in Ids, u \in UserArgs, e \in Statuses :
    /\ lastCall.op = "none"
    /\ LET res == releaseWorkspace(workspaces, id, u, e)
       IN /\ workspaces' = res.tbl
          /\ lastCall' = Called("release", id, u, e, res)
    /\ UNCHANGED <<nextId, acq, acqInit, handlerVars, authVars>>

CallAcquire ==
  \E id \in Ids, u \in UserArgs, e \in Statuses :
    /\ lastCall.op = "none"
    /\ LET res == acquireWorkspace(workspaces, id, u, e)
       IN /\ workspaces' = res.tbl
          /\ lastCall' = Called("acquire", id, u, e, res)
    /\ UNCHANGED <<nextId, acq, acqInit, handlerVars, authVars>>

CallDelete ==
  \E id \in Ids :
    /\ lastCall.op = "none"
    /\ LET res == deleteWorkspace(workspaces, id)
       IN /\ workspaces' = res.tbl
          /\ lastCall' = Called("delete", id, NULL, NoStatus, res)
    /\ UNCHANGED <<nextId, acq, acqInit, handlerVars, authVars>>

\* The call returns to its caller, which may then make the next one.
CallReturn ==
  /\ lastCall.op # "none"
  /\ lastCall' = NoCall
  /\ UNCHANGED <<workspaces, nextId, acq, acqInit, handlerVars, authVars>>

RegNext ==
  \/ CallCreate
  \/ CallUpdateStatus
  \/ CallUpdateContainer
  \/ CallUpdateOwner
  \/ CallRelease
  \/ CallAcquire
  \/ CallDelete
  \/ CallReturn

RegistrySpec == RegInit /\ [][RegNext]_vars

\* ---------------------------------------------- properties of RegistrySpec
\* C7: release (releaseWorkspace with expected status 'stopped') takes
\* effect iff the caller is the current owner and the status is stopped;
\* otherwise it reports no affected row and the record is unchanged.
ReleaseOnlyByOwnerWhenStopped ==
  (lastCall.op = "release" /\ lastCall.expected = "stopped")
  => /\ lastCall.changes \in {0, 1}
     /\ lastCall.changes = 1 <=>
          ( /\ lastCall.existed
            /\ lastCall.userId # NULL
            /\ lastCall.pre.user_id = lastCall.userId
            /\ lastCall.pre.status = "stopped" )
     /\ lastCall.changes = 1 =>
          workspaces[lastCall.id] = [lastCall.pre EXCEPT !.user_id = NULL]
     /\ lastCall.changes = 0 =>
          getWorkspace(workspaces, lastCall.id) = lastCall.pre

\* The owner's release of a running workspace was refused.
ReleaseOfRunningRefused ==
  /\ lastCall.op = "release" /\ lastCall.expected = "stopped"
  /\ lastCall.existed
  /\ lastCall.pre.status = "running"
  /\ lastCall.pre.user_id = lastCall.userId
  /\ lastCall.changes = 0
  /\ workspaces[lastCall.id].user_id = lastCall.userId

\* C8: no Registry operation replaces a non-null ownerId by a different
\* user: an owned record keeps its owner, or loses it to null through a
\* release by that owner.
OwnerNeverTakenAway ==
  ( /\ lastCall.op \notin {"none", "create", "delete"}
    /\ lastCall.existed
    /\ lastCall.pre.user_id # NULL )
  => \/ workspaces[lastCall.id].user_id = lastCall.pre.user_id
     \/ /\ lastCall.op = "release"
        /\ lastCall.userId = lastCall.pre.user_id
        /\ workspaces[lastCall.id].user_id = NULL

\* C12: no two workspace records ever share a name, whoever owns them; a
\* create whose name is already taken throws (DuplicateName), and it leaves
\* the table, the existing record included, exactly as it was.
NamesUniqueDuplicateRefused ==
  /\ [](\A i, j \in DOMAIN workspaces :
         i # j => workspaces[i].name # workspaces[j].name)
  /\ [][(lastCall.op = "none" /\ lastCall'.op = "create")
        => /\ lastCall'.error <=>
                (\E i \in DOMAIN workspaces : workspaces[i].name = lastCall'.name)
           /\ lastCall'.error => (workspaces' = workspaces /\ nextId' = nextId)
      ]_vars

\* A create by one user was refused because another user's record holds
\* the name; that record is still there.
DuplicateNameOfOtherOwnerRefused ==
  /\ lastCall.op = "create" /\ lastCall.error /\ lastCall.changes = 0
  /\ \E i \in DOMAIN workspaces :
       /\ workspaces[i].name = lastCall.name
       /\ workspaces[i].user_id # lastCall.userId
       /\ workspaces[i].user_id # NULL /\ lastCall.userId # NULL

\* C19: updateWorkspaceStatus and updateWorkspaceContainer called with an
\* expected status affect one row iff the record exists and its status is
\* the expected one, and then set exactly the status (and the containerId);
\* otherwise they affect no row, change nothing and do not throw.
CasUpdatesApplyIffExpected ==
  ( /\ lastCall.op \in {"updateStatus", "updateContainer"}
    /\ lastCall.expected # NoStatus )
  => /\ ~lastCall.error
     /\ lastCall.othersSame
     /\ lastCall.changes \in {0, 1}
     /\ lastCall.changes = 1 <=>
          (lastCall.existed /\ lastCall.pre.status = lastCall.expected)
     /\ lastCall.changes = 1 =>
          workspaces[lastCall.id] =
            IF lastCall.op = "updateStatus"
            THEN [lastCall.pre EXCEPT !.status = lastCall.status]
            ELSE [lastCall.pre EXCEPT !.status = lastCall.status,
                                      !.container_id = lastCall.containerId]
     /\ lastCall.changes = 0 =>
          /\ HasWorkspace(workspaces, lastCall.id) = lastCall.existed
          /\ getWorkspace(workspaces, lastCall.id) = lastCall.pre

\* updateWorkspaceContainer met a record whose status was not the expected
\* one: no row affected, the containerId it was given was not stored.
CasContainerMismatchIsNoOp ==
  /\ lastCall.op = "updateContainer" /\ lastCall.expected # NoStatus
  /\ lastCall.existed
  /\ lastCall.pre.status # lastCall.expected
  /\ lastCall.containerId # lastCall.pre.container_id
  /\ lastCall.changes = 0
  /\ workspaces[lastCall.id] = lastCall.pre

IdsNeverReused ==
  /\ [](\A i \in DOMAIN workspaces : i <= nextId)
  /\ [][/\ nextId' >= nextId
        /\ \A i \in DOMAIN workspaces' \ DOMAIN workspaces :
             i > nextId /\ i = nextId' /\ lastCall'.op = "create"]_vars
  /\ [][(lastCall'.op \notin {"none", "create"} /\ lastCall'.id \notin DOMAIN workspaces)
          => (workspaces' = workspaces /\ lastCall'.changes = 0)]_vars

\* Record 1 was deleted and the create that followed got id 2.
CreateAfterDeleteGotNewId ==
  /\ lastCall.op = "create" /\ ~lastCall.error /\ lastCall.id = 2
  /\ DOMAIN workspaces = {2}

\* ----------------------------------------------------------- AcquireSpec
\* One record, and every user calling acquireWorkspace(id, user, 'stopped')
\* on it once, in any order.
AcqTarget == 1

AcqInit ==
  /\ \E o \in UserArgs, c \in ContainerArgs, st \in Statuses :
       /\ workspaces = [i \in {AcqTarget} |-> Row(o, 1, c, st)]
       /\ acqInit = Row(o, 1, c, st)
  /\ nextId = AcqTarget
  /\ lastCall = NoCall
  /\ acq = [u \in Users |-> "idle"]
  /\ req = [h \in Handlers |-> IdleReq]
  /\ containers = {}
  /\ nextCid = 0
  /\ impl = "server"
  /\ targetOrganization = NoOrg
  /\ sess = [x \in SessionIds |-> NoSession]
  /\ issued = 0
  /\ asked = [n \in Nonces |-> NoReturn]
  /\ logins = 0
  /\ passed = {}
  /\ ini = IdleInitiate
  /\ cb = [c \in Callbacks |-> IdleCallback]

AcquireCall ==
  \E u \in Users :
    /\ acq[u] = "idle"
    /\ LET res == acquireWorkspace(workspaces, AcqTarget, u, "stopped")
       IN /\ workspaces' = res.tbl
          /\ acq' = [acq EXCEPT ![u] = IF res.changes = 1 THEN "applied" ELSE "conflict"]
    /\ UNCHANGED <<nextId, lastCall, acqInit, handlerVars, authVars>>

AcquireSpec == AcqInit /\ [][AcquireCall]_vars

\* C1: concurrent acquire calls by different users against a released,
\* stopped workspace: exactly one call reports one affected row, every other
\* call reports none (Conflict), and the owner is the winning user.
AcquireExactlyOneWins ==
  (acqInit.user_id = NULL /\ acqInit.status = "stopped"
     /\ \E u \in Users : acq[u] # "idle")
  => \E w \in Users :
       /\ acq[w] = "applied"
       /\ workspaces[AcqTarget].user_id = w
       /\ \A u \in Users \ {w} : acq[u] \in {"idle", "conflict"}

AcquireAllCalledOneWon ==
  /\ acqInit.user_id = NULL /\ acqInit.status = "stopped"
  /\ \A u \in Users : acq[u] # "idle"
  /\ Cardinality({u \in Users : acq[u] = "applied"}) = 1
  /\ Cardinality({u \in Users : acq[u] = "conflict"}) = NumUsers - 1
  /\ NumUsers > 1

\* ------------------------------------------------------- Spec: the handlers
\* The Runtime (workspace-manager.js): each call completes or throws.
RuntimeOutcomes == {"ok", "failed"}

\* A request may enter a slot that holds no request.
Free(h) == req[h].pc = "idle"

\* The requests in flight on workspace `id` when another one arrives.
InFlight(id, except) ==
  {g \in Handlers \ {except} : req[g].pc = "await" /\ req[g].id = id}

\* A new request in slot h.
Arrive(h, r) == [req EXCEPT ![h] = r]

\* "!workspace || workspace.user_id !== req.user.id"
NotFoundOrDenied(workspace, user) ==
  workspace = Undefined \/ workspace.user_id # user

AuthenticatedAlways(u) == TRUE

\* req.isAuthenticated(): the session carries a logged-in user.
Authenticated(u) == u # NULL

\* The middleware in front of every /api/workspaces route: an unauthenticated
\* request is answered 401 and the route's handler (`next`) never runs.
ensureAuthenticatedAPI(h, op, u, next) ==
  IF Authenticated(u) THEN next
  ELSE Arrive(h, [IdleReq EXCEPT !.pc = "done", !.op = op, !.resp = 401])

\* A head that turns away requests on a record in status error.
FetchRefusingError(h, op, u, id) ==
  LET workspace == getWorkspace(workspaces, id)
      r == [IdleReq EXCEPT !.op = op, !.user = u, !.id = id, !.workspace = workspace]
  IN IF NotFoundOrDenied(workspace, u)
     THEN Arrive(h, [r EXCEPT !.pc = "done", !.resp = 404])
     ELSE IF workspace.status = "error"
     THEN Arrive(h, [r EXCEPT !.pc = "done", !.resp = 409])
     ELSE Arrive(h, [r EXCEPT !.pc = "await", !.peers = InFlight(id, h)])

\* The synchronous head of the start, stop and delete handlers: fetch the
\* record, answer 404, or call the Runtime with the record's container_id.
Fetch(h, op, u, id) ==
  LET workspace == getWorkspace(workspaces, id)
      r == [IdleReq EXCEPT !.op = op, !.user = u, !.id = id, !.workspace = workspace]
  IN IF NotFoundOrDenied(workspace, u)
     THEN Arrive(h, [r EXCEPT !.pc = "done", !.resp = 404])
     ELSE Arrive(h, [r EXCEPT !.pc = "await", !.peers = InFlight(id, h)])

\* The request of slot h ends with `resp`.
Finish(h, resp, outcome, expected, changes) ==
  [req EXCEPT ![h] = [@ EXCEPT !.pc = "done", !.resp = resp, !.runtime = outcome,
                               !.expected = expected, !.changes = changes]]

Init ==
  /\ workspaces = EmptyTable
  /\ nextId = 0
  /\ lastCall = NoCall
  /\ acq = [u \in Users |-> "idle"]
  /\ acqInit = Undefined
  /\ req = [h \in Handlers |-> IdleReq]
  /\ containers = {}
  /\ nextCid = 0
  /\ impl = "server"
  /\ targetOrganization = NoOrg
  /\ sess = [x \in SessionIds |-> NoSession]
  /\ issued = 0
  /\ asked = [n \in Nonces |-> NoReturn]
  /\ logins = 0
  /\ passed = {}
  /\ ini = IdleInitiate
  /\ cb = [c \in Callbacks |-> IdleCallback]

\* The characters of the class [a-zA-Z0-9_-].
NameChars ==
  {"a", "b", "c", "d", "e", "f", "g", "h", "i", "j", "k", "l", "m",
   "n", "o", "p", "q", "r", "s", "t", "u", "v", "w", "x", "y", "z",
   "A", "B", "C", "D", "E", "F", "G", "H", "I", "J", "K", "L", "M",
   "N", "O", "P", "Q", "R", "S", "T", "U", "V", "W", "X", "Y", "Z",
   "0", "1", "2", "3", "4", "5", "6", "7", "8", "9", "_", "-"}

\* /[a-zA-Z0-9_-]+/.test(name): some run of class characters, anywhere.
ValidNameUnanchored(text) == \E i \in 1..Len(text) : text[i] \in NameChars

\* /^[a-zA-Z0-9_-]+$/.test(name): one or more characters, all of the class.
ValidName(text) ==
  /\ Len(text) > 0
  /\ \A i \in 1..Len(text) : text[i] \in NameChars

\* !value: the field is undefined or the empty string.
Falsy(field) == ~field.given \/ field.text = <<>>

\* The names requests ask for: name n is the first n characters of
\* NamePattern (repeated), so that the names differ in length.
NamePattern == <<"w", "-", "S", "_", "1">>
Text(n) == [i \in 1..n |-> NamePattern[((i - 1) % Len(NamePattern)) + 1]]

\* The registry's name of a requested text.
NameId(text) == Len(text)

\* The name texts requests carry: the names, the empty string, and texts
\* with a character outside the class alone, after and before a name.
NameInputs ==
  {Text(n) : n \in Names}
    \cup {<<>>, <<"/">>, Text(1) \o <<"/">>, <<" ">> \o Text(1)}
RepoUrlInputs == {NotGiven, Given(<<"u">>)}
Bodies ==
  {[name |-> nm, repoUrl |-> r] :
     nm \in {Given(t) : t \in NameInputs} \cup {NotGiven}, r \in RepoUrlInputs}

\* The handler of POST /api/workspaces up to its first await: 400 for a body
\* without name or repoUrl or with a malformed name, else the call of
\* workspaceManager.createWorkspace.
Validate(h, u, body) ==
  LET r == [IdleReq EXCEPT !.op = "create", !.user = u, !.body = body]
  IN IF Falsy(body.name) \/ Falsy(body.repoUrl)
     THEN Arrive(h, [r EXCEPT !.pc = "done", !.resp = 400])
     ELSE IF ~ValidName(body.name.text)
     THEN Arrive(h, [r EXCEPT !.pc = "done", !.resp = 400])
     ELSE Arrive(h, [r EXCEPT !.pc = "await", !.name = NameId(body.name.text)])

\* POST /api/workspaces, up to the awaited workspaceManager.createWorkspace.
CreateBegin ==
  \E h \in Handlers, u \in UserArgs, body \in Bodies :
    /\ Free(h)
    /\ nextCid < MaxContainers
    /\ nextId < MaxId
    /\ req' = ensureAuthenticatedAPI(h, "create", u, Validate(h, u, body))
    /\ UNCHANGED <<regVars, callVars, containers, nextCid, authVars>>

\* The Runtime created the container; the handler inserts the record.
CreateRuntimeOk ==
  \E h \in Handlers :
    /\ req[h].pc = "await" /\ req[h].op = "create"
    /\ nextCid < MaxContainers
    /\ LET cid == nextCid + 1
           res == createWorkspace(workspaces, nextId, req[h].user, req[h].name,
                                  cid, "running")
       IN /\ nextCid' = cid
          /\ containers' = containers \cup {cid}
          /\ workspaces' = res.tbl
          /\ nextId' = res.seq
          /\ req' = [req EXCEPT ![h] =
                       [@ EXCEPT !.pc = "done", !.runtime = "ok",
                                 !.resp = IF res.error THEN 500 ELSE 200,
                                 !.id = IF res.error THEN 0 ELSE res.seq,
                                 !.changes = res.changes]]
    /\ UNCHANGED <<callVars, authVars>>

CreateRuntimeFail ==
  \E h \in Handlers :
    /\ req[h].pc = "await" /\ req[h].op = "create"
    /\ req' = [req EXCEPT ![h] = [@ EXCEPT !.pc = "done", !.runtime = "failed",
                                           !.resp = 500]]
    /\ UNCHANGED <<regVars, callVars, containers, nextCid, authVars>>

\* POST /api/workspaces/:id/start, up to the awaited startWorkspace.
StartBegin ==
  \E h \in Handlers, u \in UserArgs, id \in Ids :
    /\ Free(h)
    /\ req' = ensureAuthenticatedAPI(h, "start", u, Fetch(h, "start", u, id))
    /\ UNCHANGED <<regVars, callVars, containers, nextCid, authVars>>

\* startWorkspace resolved: db.updateWorkspaceStatus(id, 'running'), 200.
StartRuntimeOk ==
  \E h \in Handlers :
    /\ req[h].pc = "await" /\ req[h].op = "start"
    /\ LET res == updateWorkspaceStatus(workspaces, req[h].id, "running", NoStatus)
       IN /\ workspaces' = res.tbl
          /\ req' = Finish(h, 200, "ok", NoStatus, res.changes)
    /\ UNCHANGED <<nextId, callVars, containers, nextCid, authVars>>

\* startWorkspace threw: the catch block answers 500.
StartRuntimeFail ==
  \E h \in Handlers :
    /\ req[h].pc = "await" /\ req[h].op = "start"
    /\ req' = Finish(h, 500, "failed", "none", 0)
    /\ UNCHANGED <<regVars, callVars, containers, nextCid, authVars>>

\* POST /api/workspaces/:id/stop, up to the awaited stopWorkspace.
StopBegin ==
  \E h \in Handlers, u \in UserArgs, id \in Ids :
    /\ Free(h)
    /\ req' = ensureAuthenticatedAPI(h, "stop", u, Fetch(h, "stop", u, id))
    /\ UNCHANGED <<regVars, callVars, containers, nextCid, authVars>>

\* stopWorkspace resolved: db.updateWorkspaceStatus(id, 'stopped'), 200.
StopRuntimeOk ==
  \E h \in Handlers :
    /\ req[h].pc = "await" /\ req[h].op = "stop"
    /\ LET res == updateWorkspaceStatus(workspaces, req[h].id, "stopped", NoStatus)
       IN /\ workspaces' = res.tbl
          /\ req' = Finish(h, 200, "ok", NoStatus, res.changes)
    /\ UNCHANGED <<nextId, callVars, containers, nextCid, authVars>>

StopRuntimeFail ==
  \E h \in Handlers :
    /\ req[h].pc = "await" /\ req[h].op = "stop"
    /\ req' = Finish(h, 500, "failed", "none", 0)
    /\ UNCHANGED <<regVars, callVars, containers, nextCid, authVars>>

\* DELETE /api/workspaces/:id, up to the awaited deleteWorkspace.
DeleteBegin ==
  \E h \in Handlers, u \in UserArgs, id \in Ids :
    /\ Free(h)
    /\ req' = ensureAuthenticatedAPI(h, "delete", u, Fetch(h, "delete", u, id))
    /\ UNCHANGED <<regVars, callVars, containers, nextCid, authVars>>

\* The Runtime removed the container: db.deleteWorkspace(id), 200.
DeleteRuntimeOk ==
  \E h \in Handlers :
    /\ req[h].pc = "await" /\ req[h].op = "delete"
    /\ LET res == deleteWorkspace(workspaces, req[h].id)
       IN /\ workspaces' = res.tbl
          /\ req' = Finish(h, 200, "ok", "none", res.changes)
    /\ containers' = containers \ {req[h].workspace.container_id}
    /\ UNCHANGED <<nextId, callVars, nextCid, authVars>>

\* A failure branch that removes the record all the same.
DeleteRuntimeFailRemoves ==
  \E h \in Handlers :
    /\ req[h].pc = "await" /\ req[h].op = "delete"
    /\ workspaces' = deleteWorkspace(workspaces, req[h].id).tbl
    /\ req' = Finish(h, 500, "failed", "none", 0)
    /\ UNCHANGED <<nextId, callVars, containers, nextCid, authVars>>

\* workspaceManager.deleteWorkspace threw: the catch block answers 500.
DeleteRuntimeFail ==
  \E h \in Handlers :
    /\ req[h].pc = "await" /\ req[h].op = "delete"
    /\ req' = Finish(h, 500, "failed", "none", 0)
    /\ UNCHANGED <<regVars, callVars, containers, nextCid, authVars>>

\* GET /api/workspaces: the rows db.getUserWorkspaces returns for the user.
ListWorkspaces ==
  \E h \in Handlers, u \in UserArgs :
    /\ Free(h)
    /\ req' = ensureAuthenticatedAPI(h, "list", u,
                 Arrive(h, [IdleReq EXCEPT !.pc = "done", !.op = "list", !.user = u,
                                           !.resp = 200,
                                           !.rows = getUserWorkspaces(workspaces, u)]))
    /\ UNCHANGED <<regVars, callVars, containers, nextCid, authVars>>

\* GET /api/workspaces/:id: the record, or 404.
GetWorkspaceDetails ==
  \E h \in Handlers, u \in UserArgs, id \in Ids :
    /\ Free(h)
    /\ LET workspace == getWorkspace(workspaces, id)
           r == [IdleReq EXCEPT !.pc = "done", !.op = "get", !.user = u, !.id = id,
                                !.workspace = workspace]
       IN req' = ensureAuthenticatedAPI(h, "get", u,
                   Arrive(h, [r EXCEPT !.resp = IF NotFoundOrDenied(workspace, u)
                                                THEN 404 ELSE 200]))
    /\ UNCHANGED <<regVars, callVars, containers, nextCid, authVars>>

\* GET /api/auth/verify of the docs server, asked by the reverse proxy for
\* every request to the documentation: 200 for an authenticated session,
\* 401 otherwise.
AuthVerify ==
  \E h \in Handlers, u \in UserArgs :
    /\ Free(h)
    /\ req' = Arrive(h, [IdleReq EXCEPT !.pc = "done", !.op = "verify", !.user = u,
                                        !.resp = IF Authenticated(u) THEN 200 ELSE 401])
    /\ UNCHANGED <<regVars, callVars, containers, nextCid, authVars>>

\* The response has been sent; the slot is free for the next request.
Respond ==
  \E h \in Handlers :
    /\ req[h].pc = "done"
    /\ req' = [g \in Handlers |->
                 IF g = h THEN IdleReq
                 ELSE [req[g] EXCEPT !.peers = req[g].peers \ {h}]]
    /\ UNCHANGED <<regVars, callVars, containers, nextCid, authVars>>

Next ==
  \/ CreateBegin
  \/ CreateRuntimeOk
  \/ CreateRuntimeFail
  \/ StartBegin
  \/ StartRuntimeOk
  \/ StartRuntimeFail
  \/ StopBegin
  \/ StopRuntimeOk
  \/ StopRuntimeFail
  \/ DeleteBegin
  \/ DeleteRuntimeOk
  \/ DeleteRuntimeFail
  \/ Respond

Spec == Init /\ [][Next]_vars

\* -------------------------------------------------------------- RetrySpec
\* The handlers over a registry that holds one record, stopped or parked in
\* status error by a failed transition.
RetryInit ==
  /\ \E u \in Users, st \in {"stopped", "error"} :
       workspaces = [i \in {1} |-> Row(u, 1, 1, st)]
  /\ nextId = 1
  /\ containers = {1}
  /\ nextCid = 1
  /\ lastCall = NoCall
  /\ acq = [u \in Users |-> "idle"]
  /\ acqInit = Undefined
  /\ req = [h \in Handlers |-> IdleReq]
  /\ impl = "server"
  /\ targetOrganization = NoOrg
  /\ sess = [x \in SessionIds |-> NoSession]
  /\ issued = 0
  /\ asked = [n \in Nonces |-> NoReturn]
  /\ logins = 0
  /\ passed = {}
  /\ ini = IdleInitiate
  /\ cb = [c \in Callbacks |-> IdleCallback]

RetrySpec == RetryInit /\ [][Next]_vars

ApiNext ==
  \/ Next
  \/ ListWorkspaces
  \/ GetWorkspaceDetails
  \/ AuthVerify

ApiSpec == Init /\ [][ApiNext]_vars

\* C29: a request to a session-protected route (the /api/workspaces routes
\* and /api/auth/verify) from an unauthenticated session is answered 401,
\* writes nothing to the registry and calls no Runtime; /api/auth/verify
\* answers 200 only for an authenticated session.
UnauthenticatedAnswered401 ==
  /\ [](\A h \in Handlers :
         (req[h].pc # "idle" /\ req[h].user = NULL)
         => /\ req[h].pc = "done" /\ req[h].resp = 401
            /\ req[h].runtime = "none" /\ req[h].changes = 0)
  /\ [](\A h \in Handlers :
         (req[h].op = "verify" /\ req[h].resp = 200) => req[h].user \in Users)
  /\ [][\A h \in Handlers :
         (req[h].pc = "idle" /\ req'[h].pc # "idle" /\ req'[h].user = NULL)
         => /\ workspaces' = workspaces /\ nextId' = nextId
            /\ containers' = containers /\ nextCid' = nextCid]_vars

\* With a record in the registry, a delete and a verify without a login
\* were both answered 401.
DeleteAndVerifyWithoutLogin401 ==
  /\ workspaces # EmptyTable
  /\ \E h, g \in Handlers :
       /\ req[h].op = "delete" /\ req[h].pc = "done" /\ req[h].resp = 401
       /\ req[g].op = "verify" /\ req[g].pc = "done" /\ req[g].resp = 401
       /\ req[g].user = NULL

\* ------------------------------------------------- properties of Spec
\* C30: a record's status becomes running only in the step in which a start
\* request for it learns that its Runtime call succeeded, and becomes
\* stopped only in the step in which a stop request for it learns the same;
\* a start or stop whose Runtime call failed or is pending has written nothing.
Settles(h, op, i) ==
  /\ req[h].pc = "await" /\ req[h].op = op /\ req[h].id = i
  /\ req'[h].pc = "done" /\ req'[h].runtime = "ok"

SuccessStatusOnlyAfterRuntimeSuccess ==
  /\ [](\A h \in Handlers :
         (req[h].op \in {"start", "stop"} /\ req[h].runtime # "ok")
         => req[h].changes = 0)
  /\ [][\A i \in DOMAIN workspaces' :
         LET was == IF i \in DOMAIN workspaces THEN workspaces[i].status ELSE NoStatus
             now == workspaces'[i].status
         IN /\ (now = "running" /\ was # "running")
               => \E h \in Handlers : Settles(h, "start", i)
            /\ (now = "stopped" /\ was # "stopped")
               => \E h \in Handlers : Settles(h, "stop", i)]_vars

\* C33: a record leaves the registry only in the step in which a delete
\* request for it learns that the Runtime removed its container; a delete
\* whose Runtime call failed leaves the registry as it was and answers 500.
DeleteRemovesOnlyAfterRuntimeSuccess ==
  /\ [][\A i \in DOMAIN workspaces \ DOMAIN workspaces' :
         \E h \in Handlers : Settles(h, "delete", i)]_vars
  /\ [][\A h \in Handlers :
         (/\ req[h].op = "delete" /\ req[h].pc = "await"
          /\ req'[h].pc = "done" /\ req'[h].runtime # "ok")
         => /\ workspaces' = workspaces
            /\ req'[h].runtime = "failed" /\ req'[h].resp = 500]_vars

\* A delete failed in the Runtime: 500, and the record is still as fetched.
FailedDeleteKeepsRecord ==
  \E h \in Handlers :
    /\ req[h].op = "delete" /\ req[h].pc = "done"
    /\ req[h].runtime = "failed" /\ req[h].resp = 500
    /\ req[h].id \in DOMAIN workspaces
    /\ workspaces[req[h].id] = req[h].workspace

\* C35: every container that exists in the Runtime is the container of some
\* record, also after a create request that failed once the Runtime had made
\* its container.
NoContainerWithoutRecord ==
  \A c \in containers :
    \E i \in DOMAIN workspaces : workspaces[i].container_id = c

\* C36: no start or stop request calls the Runtime for a container while a
\* delete request is having that container removed or after it has done so,
\* and a start or stop that settles after its record was deleted changes
\* nothing in the registry.
NoRuntimeCallAfterDestroyIssued ==
  /\ [][\A h \in Handlers :
         (/\ req[h].pc = "idle" /\ req'[h].pc = "await"
          /\ req'[h].op \in {"start", "stop"})
         => /\ req'[h].workspace.container_id \in containers
            /\ \A g \in Handlers \ {h} :
                 ~(/\ req[g].pc = "await" /\ req[g].op = "delete"
                   /\ req[g].workspace.container_id
                        = req'[h].workspace.container_id)]_vars
  /\ [][\A h \in Handlers :
         (/\ req[h].pc = "await" /\ req[h].op \in {"start", "stop"}
          /\ req'[h].pc = "done" /\ req[h].id \notin DOMAIN workspaces)
         => workspaces' = workspaces]_vars

\* C28: a create request whose body lacks the name or the repoUrl, or whose
\* name is not one or more characters of [A-Za-z0-9_-], is answered 400
\* without a Runtime call and without a record being created.
MalformedBody(body) ==
  \/ ~body.name.given
  \/ ~body.repoUrl.given
  \/ Len(body.name.text) = 0
  \/ \E i \in 1..Len(body.name.text) : body.name.text[i] \notin NameChars

MalformedCreateRefused ==
  /\ [](\A h \in Handlers :
         (req[h].op = "create" /\ req[h].user # NULL /\ MalformedBody(req[h].body))
         => /\ req[h].pc = "done" /\ req[h].resp = 400
            /\ req[h].runtime = "none" /\ req[h].id = 0)
  /\ [][\A h \in Handlers :
         (req[h].pc = "idle" /\ req'[h].op = "create"
            /\ MalformedBody(req'[h].body))
         => /\ workspaces' = workspaces /\ nextId' = nextId
            /\ containers' = containers /\ nextCid' = nextCid]_vars

\* A name that starts well and ends with a character outside the class was
\* refused, the repoUrl being there.
NameWithTrailingSlashRefused ==
  \E h \in Handlers :
    /\ req[h].op = "create" /\ req[h].pc = "done" /\ req[h].resp = 400
    /\ req[h].user \in Users
    /\ req[h].body.repoUrl.given
    /\ req[h].body.name = Given(Text(1) \o <<"/">>)

Live == {"starting", "running", "stopping"}

\* C2: two start requests for the same stopped workspace handled
\* concurrently (the second arrives while the first awaits the Runtime, and
\* neither Runtime call fails): exactly one answers 200 and the other
\* answers 409 Conflict.
StartRaceOneWinsOtherConflicts ==
  \A h1, h2 \in Handlers :
    ( /\ h1 # h2
      /\ req[h1].op = "start" /\ req[h2].op = "start"
      /\ req[h1].pc = "done" /\ req[h2].pc = "done"
      /\ req[h1].id = req[h2].id
      /\ h1 \in req[h2].peers
      /\ req[h1].workspace.status = "stopped"
      /\ req[h2].workspace.status = "stopped"
      /\ req[h1].runtime # "failed" /\ req[h2].runtime # "failed" )
    => {req[h1].resp, req[h2].resp} = {200, 409}

\* C3: every workspace record with a non-null containerId has status
\* starting, running or stopping.
ContainerImpliesLiveStatus ==
  \A id \in DOMAIN workspaces :
    workspaces[id].container_id # NULL => workspaces[id].status \in Live

\* C4: when the Runtime call of a start on a stopped (or error) workspace
\* fails and the record still exists, the handler leaves the record with
\* status error and the containerId it had before the call, and answers 500.
StartFailureParksError ==
  [][\A h \in Handlers :
       ( /\ req[h].pc = "await" /\ req[h].op = "start"
         /\ req[h].workspace.status \in {"stopped", "error"}
         /\ req'[h].pc = "done" /\ req'[h].runtime = "failed"
         /\ HasWorkspace(workspaces, req[h].id) )
       => /\ req'[h].resp = 500
          /\ HasWorkspace(workspaces', req[h].id)
          /\ workspaces'[req[h].id].status = "error"
          /\ workspaces'[req[h].id].container_id = req[h].workspace.container_id
    ]_vars

\* C9: every registry update a start or stop handler makes carries an
\* expected prior status; none is an unconditional update.
HandlerWritesCarryExpectedStatus ==
  \A h \in Handlers :
    (req[h].op \in {"start", "stop"} /\ req[h].expected # "none")
    => req[h].expected # NoStatus

\* C10: a start or stop handler has its Runtime call in flight only after
\* its own compare-and-swap to the transitional status took effect.
RuntimeCallOnlyAfterCasWon ==
  \A h \in Handlers :
    (req[h].op \in {"start", "stop"} /\ req[h].pc = "await")
    => (req[h].expected \in Statuses /\ req[h].changes = 1)

\* C11: for any container handle, at most one lifecycle handler (start, stop
\* or delete) has a Runtime call in flight.
OneRuntimeCallPerHandle ==
  \A h1, h2 \in Handlers :
    ( /\ h1 # h2
      /\ req[h1].pc = "await" /\ req[h2].pc = "await"
      /\ req[h1].op \in {"start", "stop", "delete"}
      /\ req[h2].op \in {"start", "stop", "delete"} )
    => req[h1].workspace.container_id # req[h2].workspace.container_id

\* The status changes the lifecycle allows.
LifecycleEdges ==
  { <<"stopped", "starting">>, <<"starting", "running">>,
    <<"running", "stopping">>, <<"stopping", "stopped">>,
    <<"starting", "error">>, <<"stopping", "error">>,
    <<"error", "starting">>, <<"error", "stopping">> }

\* C14: a record's status is always one of the five lifecycle statuses, and
\* every change of a record's status made by a handler is a lifecycle edge.
StatusFollowsLifecycleEdges ==
  /\ [](\A id \in DOMAIN workspaces : workspaces[id].status \in Statuses)
  /\ [][\A id \in DOMAIN workspaces \cap DOMAIN workspaces' :
          \/ workspaces'[id].status = workspaces[id].status
          \/ <<workspaces[id].status, workspaces'[id].status>> \in LifecycleEdges
      ]_vars

\* C16: a create that succeeds adds a record that did not exist before, with
\* status stopped and a null containerId, owned by the creating user.
CreateYieldsStoppedRecord ==
  [][\A h \in Handlers :
       ( /\ req[h].pc = "await" /\ req[h].op = "create"
         /\ req'[h].pc = "done" /\ req'[h].resp = 200 )
       => /\ ~HasWorkspace(workspaces, req'[h].id)
          /\ HasWorkspace(workspaces', req'[h].id)
          /\ workspaces'[req'[h].id] = Row(req[h].user, req[h].name, NULL, "stopped")
    ]_vars

\* C17: a record is removed only while its status is stopped or error, and a
\* delete by the owner that finds the workspace starting, running or
\* stopping is answered 409.
DeleteOnlyWhenStoppedOrError ==
  /\ [][\A id \in DOMAIN workspaces :
          id \notin DOMAIN workspaces'
          => workspaces[id].status \in {"stopped", "error"}
      ]_vars
  /\ [](\A h \in Handlers :
         ( /\ req[h].op = "delete" /\ req[h].pc = "done"
           /\ req[h].resp # 404
           /\ req[h].workspace.status \in Live )
         => req[h].resp = 409)

\* The awaited Runtime call of the request in slot h settles (resolves or
\* throws) and the handler runs on to its response.
RuntimeReturns(h) ==
  /\ req[h].pc = "await"
  /\ Next
  /\ req'[h].pc = "done"

\* The response of the request in slot h is sent.
ResponseSent(h) ==
  /\ req[h].pc = "done"
  /\ Respond
  /\ req'[h].pc = "idle"

\* The handlers when every Runtime call eventually resolves or throws (a
\* timeout is a throw) and every response is eventually sent.
LiveSpec ==
  /\ Spec
  /\ \A h \in Handlers : WF_vars(RuntimeReturns(h)) /\ WF_vars(ResponseSent(h))

\* C15: a record in a transitional status eventually reaches running,
\* stopped or error, and a start or stop whose Runtime call is in flight
\* eventually ends with the record in error if that call failed or timed out.
TransitionEventuallySettles ==
  /\ \A id \in Ids :
       (getWorkspace(workspaces, id).status \in {"starting", "stopping"})
       ~> (getWorkspace(workspaces, id).status
             \in {"running", "stopped", "error", "undefined"})
  /\ \A h \in Handlers :
       (req[h].pc = "await" /\ req[h].op \in {"start", "stop"})
       ~> ( /\ req[h].pc = "done"
            /\ req[h].runtime = "failed"
                 => getWorkspace(workspaces, req[h].id).status
                      \in {"error", "undefined"} )

\* ------------------------------------- ShareSpec: handlers and ownership
\* The handlers of Spec next to callers of the ownership operations: a user
\* releasing a stopped workspace to the pool, a user acquiring a released
\* one. Each is one synchronous database call.
ReleaseRequest ==
  \E u \in Users, id \in Ids :
    /\ workspaces' = releaseWorkspace(workspaces, id, u, "stopped").tbl
    /\ UNCHANGED <<nextId, callVars, handlerVars, authVars>>

AcquireRequest ==
  \E u \in Users, id \in Ids :
    /\ workspaces' = acquireWorkspace(workspaces, id, u, "stopped").tbl
    /\ UNCHANGED <<nextId, callVars, handlerVars, authVars>>

ShareNext ==
  \/ Next
  \/ ReleaseRequest
  \/ AcquireRequest

ShareSpec == Init /\ [][ShareNext]_vars

\* --------------------------------------------------------------- ViewSpec
\* The registries the create and stop handlers leave behind: n records with
\* distinct names, each owned by its creator, running or stopped, with the
\* container the Runtime made for it.
Populated(n) ==
  {t \in [1..n -> {Row(u, nm, NULL, st) :
                     u \in Users, nm \in Names, st \in {"running", "stopped"}}] :
     \A i, j \in 1..n : i # j => t[i].name # t[j].name}

ViewInit ==
  /\ \E n \in 0..MaxId :
       /\ \E t \in Populated(n) :
            workspaces = [i \in 1..n |-> [t[i] EXCEPT !.container_id = i]]
       /\ nextId = n
       /\ containers = 1..n
       /\ nextCid = n
  /\ lastCall = NoCall
  /\ acq = [u \in Users |-> "idle"]
  /\ acqInit = Undefined
  /\ req = [h \in Handlers |-> IdleReq]
  /\ impl = "server"
  /\ targetOrganization = NoOrg
  /\ sess = [x \in SessionIds |-> NoSession]
  /\ issued = 0
  /\ asked = [n \in Nonces |-> NoReturn]
  /\ logins = 0
  /\ passed = {}
  /\ ini = IdleInitiate
  /\ cb = [c \in Callbacks |-> IdleCallback]

ViewNext ==
  \/ ListWorkspaces
  \/ GetWorkspaceDetails
  \/ Respond
  \/ ReleaseRequest
  \/ AcquireRequest

ViewSpec == ViewInit /\ [][ViewNext]_vars

\* C26: GET /api/workspaces/:id answers 200 with the record when the
\* requester owns it or it is released (owner null), and 404 when it does
\* not exist or another user owns it.
DetailsForOwnerOrReleased ==
  \A h \in Handlers :
    (req[h].op = "get" /\ req[h].pc = "done" /\ req[h].user # NULL)
    => req[h].resp = (IF /\ req[h].workspace # Undefined
                         /\ req[h].workspace.user_id \in {req[h].user, NULL}
                      THEN 200 ELSE 404)

\* C27: the list a user gets is exactly the records the user owns plus the
\* records with no owner, as the registry holds them when the request is
\* served: a released record is listed for every user from then on.
ListIsOwnedPlusReleased ==
  [][\A h \in Handlers :
       (req[h].pc = "idle" /\ req'[h].op = "list" /\ req'[h].resp = 200)
       => req'[h].rows = {i \in DOMAIN workspaces :
                            \/ workspaces[i].user_id = req'[h].user
                            \/ workspaces[i].user_id = NULL}]_vars

\* A user's list holds a record with no owner and
\* leaves out a record another user owns.
ListShowsReleasedHidesForeign ==
  \E h \in Handlers :
    /\ req[h].op = "list" /\ req[h].pc = "done" /\ req[h].resp = 200
    /\ \E i \in req[h].rows : i \in DOMAIN workspaces /\ workspaces[i].user_id = NULL
    /\ \E j \in DOMAIN workspaces \ req[h].rows :
         workspaces[j].user_id \in Users \ {req[h].user}

\* C18: when a start, stop or delete takes effect, its requester is the
\* owner of the record at that moment; a handler whose requester is not the
\* owner by then changes nothing and answers 404.
OnlyCurrentOwnerMutates ==
  [][\A h \in Handlers :
       ( /\ req[h].pc = "await" /\ req[h].op \in {"start", "stop", "delete"}
         /\ req'[h].pc = "done"
         /\ HasWorkspace(workspaces, req[h].id)
         /\ workspaces[req[h].id].user_id \notin {NULL, req[h].user} )
       => /\ workspaces' = workspaces
          /\ req'[h].resp = 404
    ]_vars

\* ------------------------------------------------- AuthSpec: OAuth routes
\* impl = "server": the routes of app/server.js; impl = "common": the routes
\* createOAuthRoutes of auth-common.js builds.

\* A verification that lets a callback through when no nonce is stored.
VerifyStateOnlyIfStored(im, queryState, oauthState) ==
  IF oauthState = Absent THEN (IF im = "common" THEN "lost" ELSE "pass")
  ELSE IF queryState # oauthState THEN "mismatch"
  ELSE "pass"

\* The first callback middleware: "lost" (no stored nonce, auth-common only),
\* "mismatch" (query.state !== session.oauthState) or "pass".
VerifyState(im, queryState, oauthState) ==
  IF im = "common" /\ oauthState = Absent THEN "lost"
  ELSE IF queryState # oauthState THEN "mismatch"
  ELSE "pass"

\* A strategy callback that skips the organization check.
StrategyVerifyNoOrgCheck(im, target, lookup, userOrgs, appUser) ==
  IF im = "server" THEN "user"
  ELSE IF target # NoOrg /\ lookup = "failed" THEN "error"
  ELSE IF appUser = NULL THEN "rejected"
  ELSE "user"

\* The strategy's verify callback, run once the token exchange has yielded a
\* profile. server.js: done(null, user). configureGitHubAuth: with a target
\* organization the memberships are fetched ("error" when the lookup fails)
\* and the target must be among them ("notMember"); then onAuthSuccess
\* yields the user or nothing ("rejected").
StrategyVerify(im, target, lookup, userOrgs, appUser) ==
  IF im = "server" THEN "user"
  ELSE IF target # NoOrg /\ lookup = "failed" THEN "error"
  ELSE IF target # NoOrg /\ target \notin userOrgs THEN "notMember"
  ELSE IF appUser = NULL THEN "rejected"
  ELSE "user"

\* What the provider and the application hook can answer for a callback.
Lookups == {"ok", "failed"}
Memberships == SUBSET Orgs
AppUsers == Users \cup {NULL}

\* The callback of slot c with the strategy's inputs recorded: the
\* memberships when they were fetched, and whether onAuthSuccess was called.
Verified(c, lookup, userOrgs, appUser) ==
  LET fetched == impl = "common" /\ targetOrganization # NoOrg
      member == ~fetched \/ (lookup = "ok" /\ targetOrganization \in userOrgs)
  IN [cb[c] EXCEPT !.orgs = IF fetched /\ lookup = "ok" THEN userOrgs ELSE {},
                   !.hooked = impl = "common" /\ member]

\* req.logIn of a callback that regenerates the session: the old session is
\* destroyed, the user is attached to a session with a new id.
LogInKeepingId(store, old, new, u) ==
  [store EXCEPT ![old] = [NoSession EXCEPT !.user = u]]

LogIn(store, old, new, u) ==
  [store EXCEPT ![old] = NoSession, ![new] = [NoSession EXCEPT !.user = u]]

AuthInit ==
  /\ impl \in {"server", "common"}
  /\ targetOrganization \in (IF impl = "common" THEN {NoOrg, 1} ELSE {NoOrg})
  /\ sess = [x \in SessionIds |-> NoSession]
  /\ issued = 0
  /\ asked = [n \in Nonces |-> NoReturn]
  /\ logins = 0
  /\ passed = {}
  /\ ini = IdleInitiate
  /\ cb = [c \in Callbacks |-> IdleCallback]
  /\ workspaces = EmptyTable
  /\ nextId = 0
  /\ lastCall = NoCall
  /\ acq = [u \in Users |-> "idle"]
  /\ acqInit = Undefined
  /\ req = [h \in Handlers |-> IdleReq]
  /\ containers = {}
  /\ nextCid = 0

\* GET /auth/github, GET /auth: a fresh random nonce (random values do not
\* repeat) is put on req.session, and in auth-common.js the returnTo of the
\* query if there is one. auth-common.js then calls session.save and
\* waits for its callback; server.js calls passport.authenticate at once,
\* which redirects, and express-session writes the session out before the
\* response ends.
Initiate ==
  \E x \in Sessions, rt \in ReturnTos \cup {NoReturn} :
    /\ ini.pc = "idle"
    /\ issued < NumNonces
    /\ issued' = issued + 1
    /\ LET stored == IF impl = "common" THEN rt ELSE NoReturn
       IN /\ asked' = [asked EXCEPT ![issued + 1] = stored]
          /\ ini' = [pc |-> "saving", sid |-> x, nonce |-> issued + 1,
                     resp |-> 0, saved |-> FALSE, returnTo |-> stored]
    /\ UNCHANGED <<regVars, callVars, handlerVars, authConfig, passed, sess, logins, cb>>

\* The session store took the session: the nonce is now in the store, and
\* the returnTo if the request carried one (an older one stays otherwise).
\* auth-common.js redirects to the provider from the save callback.
InitiateSaveOk ==
  /\ ini.pc = "saving"
  /\ sess' = [sess EXCEPT ![ini.sid].oauthState = ini.nonce,
                          ![ini.sid].returnTo =
                             IF ini.returnTo # NoReturn THEN ini.returnTo ELSE @]
  /\ ini' = [ini EXCEPT !.pc = "done", !.saved = TRUE, !.resp = 302]
  /\ UNCHANGED <<regVars, callVars, handlerVars, authConfig, passed, issued, asked, logins, cb>>

\* The session store failed: auth-common.js answers 500 from the save
\* callback; server.js has no such branch, its redirect goes out.
InitiateSaveFail ==
  /\ ini.pc = "saving"
  /\ ini' = [ini EXCEPT !.pc = "done",
                        !.resp = IF impl = "common" THEN 500 ELSE 302]
  /\ UNCHANGED <<regVars, callVars, handlerVars, authConfig, passed, issued, asked, logins,
                 sess, cb>>

\* The initiate response has been sent.
InitiateRespond ==
  /\ ini.pc = "done"
  /\ ini' = IdleInitiate
  /\ UNCHANGED <<regVars, callVars, handlerVars, authConfig, passed, issued, asked, logins,
                 sess, cb>>

\* What express-session writes to the store when a callback's response ends:
\* the request's copy of the session, from which the middleware deleted the
\* nonce.
EndSave(store, c) ==
  [store EXCEPT ![cb[c].sid] = [NoSession EXCEPT !.returnTo = cb[c].to]]

\* GET /auth/github/callback: the state-verification middleware, run on
\* the session as the request loaded it (its oauthState and returnTo). On a
\* pass it deletes the nonce from the request's copy of the session; the
\* store keeps the nonce until the request ends or regenerates the session.
CallbackVerify ==
  \E c \in Callbacks, x \in Sessions, q \in QueryStates :
    /\ cb[c].pc = "idle"
    /\ LET verdict == VerifyState(impl, q, sess[x].oauthState)
           r == [IdleCallback EXCEPT !.sid = x, !.state = q,
                                     !.seen = sess[x].oauthState,
                                     !.to = sess[x].returnTo]
       IN IF verdict = "pass"
          THEN /\ passed' = passed \cup ({q} \cap Nonces)
               /\ cb' = [cb EXCEPT ![c] = [r EXCEPT !.pc = "exchange",
                                                    !.exchanged = TRUE]]
          ELSE /\ passed' = passed
               /\ cb' = [cb EXCEPT ![c] = [r EXCEPT !.pc = "done", !.resp = 403,
                                                    !.why = verdict]]
    /\ UNCHANGED <<regVars, callVars, handlerVars, authConfig, issued, asked, logins,
                   ini, sess>>

\* passport.authenticate ends in an error (the token exchange failed, or the
\* verify callback caught an exception such as a failed membership lookup):
\* next(err) in server.js, a redirect to the failure path in auth-common.js.
CallbackAuthError ==
  \E c \in Callbacks, cause \in {"exchange", "lookup"} :
    /\ cb[c].pc = "exchange"
    /\ cause = "lookup"
         => StrategyVerify(impl, targetOrganization, "failed", {}, NULL) = "error"
    /\ cb' = [cb EXCEPT ![c] = [@ EXCEPT !.pc = "done", !.why = "error",
                                  !.resp = IF impl = "server" THEN 500 ELSE 302]]
    /\ sess' = EndSave(sess, c)
    /\ UNCHANGED <<regVars, callVars, handlerVars, authConfig, passed, issued, asked, logins,
                   ini>>

\* passport.authenticate yields no user (the verify callback called
\* done(null, false)): redirect to the failure path.
CallbackAuthFail ==
  \E c \in Callbacks, userOrgs \in Memberships, appUser \in AppUsers :
    LET verdict == StrategyVerify(impl, targetOrganization, "ok", userOrgs, appUser)
    IN /\ cb[c].pc = "exchange"
       /\ verdict \in {"notMember", "rejected"}
       /\ cb' = [cb EXCEPT ![c] = [Verified(c, "ok", userOrgs, appUser) EXCEPT
                                     !.pc = "done", !.why = verdict, !.resp = 302]]
       /\ sess' = EndSave(sess, c)
       /\ UNCHANGED <<regVars, callVars, handlerVars, authConfig, passed, issued, asked,
                      logins, ini>>

\* passport.authenticate yields a user and req.logIn succeeds: the session
\* is regenerated with the user attached. auth-common.js took the returnTo
\* of the old session (or the default) before and now calls session.save;
\* server.js redirects to /dashboard, express-session saving on the way out.
CallbackLogin ==
  \E c \in Callbacks, userOrgs \in Memberships, u \in Users :
    LET verdict == StrategyVerify(impl, targetOrganization, "ok", userOrgs, u)
        old == cb[c].sid
        new == NumSessions + logins + 1
    IN /\ cb[c].pc = "exchange"
       /\ verdict = "user"
       /\ logins < MaxLogins
       /\ logins' = logins + 1
       /\ sess' = LogIn(sess, old, new, u)
       /\ cb' = [cb EXCEPT ![c] = [Verified(c, "ok", userOrgs, u) EXCEPT
                    !.pc = "saving", !.user = u, !.authed = TRUE, !.newSid = new,
                    !.to = IF impl = "common" /\ cb[c].to # NoReturn
                           THEN cb[c].to ELSE DefaultReturnTo]]
       /\ UNCHANGED <<regVars, callVars, handlerVars, authConfig, passed, issued, asked, ini>>

\* passport.authenticate yields a user but req.logIn fails: a redirect to
\* the failure path in auth-common.js, next(err) in server.js.
CallbackLoginError ==
  \E c \in Callbacks, userOrgs \in Memberships, u \in Users :
    LET verdict == StrategyVerify(impl, targetOrganization, "ok", userOrgs, u)
    IN /\ cb[c].pc = "exchange"
       /\ verdict = "user"
       /\ cb' = [cb EXCEPT ![c] = [Verified(c, "ok", userOrgs, u) EXCEPT
                    !.pc = "done", !.why = "loginError",
                    !.resp = IF impl = "server" THEN 500 ELSE 302]]
       /\ sess' = EndSave(sess, c)
       /\ UNCHANGED <<regVars, callVars, handlerVars, authConfig, passed, issued, asked,
                      logins, ini>>

\* The session save after login succeeded: redirect to the return target.
CallbackSaveOk ==
  \E c \in Callbacks :
    /\ cb[c].pc = "saving"
    /\ cb' = [cb EXCEPT ![c] = [@ EXCEPT !.pc = "done", !.why = "ok",
                                         !.resp = 302, !.saved = TRUE]]
    /\ UNCHANGED <<regVars, callVars, handlerVars, authConfig, passed, issued, asked,
                   logins, ini, sess>>

\* The session save after login failed: auth-common.js logs the error and
\* redirects all the same; server.js has no save callback at all.
CallbackSaveFail ==
  \E c \in Callbacks :
    /\ cb[c].pc = "saving"
    /\ cb' = [cb EXCEPT ![c] = [@ EXCEPT !.pc = "done", !.why = "ok",
                                         !.resp = 302]]
    /\ UNCHANGED <<regVars, callVars, handlerVars, authConfig, passed, issued, asked,
                   logins, ini, sess>>

\* The response has been sent.
CallbackRespond ==
  \E c \in Callbacks :
    /\ cb[c].pc = "done"
    /\ cb' = [cb EXCEPT ![c] = IdleCallback]
    /\ UNCHANGED <<regVars, callVars, handlerVars, authConfig, passed, issued, asked,
                   logins, ini, sess>>

AuthNext ==
  \/ Initiate
  \/ InitiateSaveOk
  \/ InitiateSaveFail
  \/ InitiateRespond
  \/ CallbackVerify
  \/ CallbackAuthError
  \/ CallbackAuthFail
  \/ CallbackLogin
  \/ CallbackLoginError
  \/ CallbackSaveOk
  \/ CallbackSaveFail
  \/ CallbackRespond

AuthSpec == AuthInit /\ [][AuthNext]_vars

\* C5: a callback whose query state differs from the nonce stored in the
\* session is answered 403, never reaches the token exchange and never
\* authenticates the session, under both implementations.
MismatchedCallbackRejected ==
  \A c \in Callbacks :
    (cb[c].pc # "idle" /\ cb[c].state # cb[c].seen)
    => /\ cb[c].pc = "done"
       /\ cb[c].resp = 403
       /\ ~cb[c].exchanged
       /\ ~cb[c].authed

\* A forged state met a stored nonce and was refused.
ForgedStateRefused ==
  \E c \in Callbacks :
    /\ cb[c].pc = "done" /\ cb[c].resp = 403 /\ cb[c].why = "mismatch"
    /\ cb[c].seen \in Nonces /\ cb[c].state = Forged

\* C13: a callback that finds no nonce stored in its session is answered 403
\* (SessionLost) whatever its state parameter is, an absent one included,
\* and reaches neither the token exchange nor authentication.
CallbackWithoutNonceIsSessionLost ==
  \A c \in Callbacks :
    (cb[c].pc # "idle" /\ cb[c].seen = Absent)
    => /\ cb[c].pc = "done"
       /\ cb[c].resp = 403
       /\ ~cb[c].exchanged
       /\ ~cb[c].authed

\* C20: the redirect to the identity provider is issued only once the
\* session holding the nonce has been saved, and an initiate whose session
\* save failed is answered 500 with no redirect.
RedirectOnlyAfterSessionSaved ==
  /\ ini.resp = 302 => (ini.pc = "done" /\ ini.saved)
  /\ (ini.pc = "done" /\ ~ini.saved) => ini.resp = 500

\* C21: the success redirect of a login is issued only when the session save
\* that follows the login has succeeded.
LoginRedirectOnlyAfterSave ==
  \A c \in Callbacks :
    (cb[c].pc = "done" /\ cb[c].authed /\ cb[c].resp = 302 /\ cb[c].why = "ok")
    => cb[c].saved

\* C22: with a target organization configured, a callback authenticates a
\* session and calls the application hook only if the organization is in the
\* memberships fetched for the user; otherwise it ends as NotAMember with a
\* redirect to the failure path and its session stays unauthenticated.
LoginOnlyForOrganizationMembers ==
  targetOrganization # NoOrg
  => \A c \in Callbacks :
       /\ (cb[c].authed \/ cb[c].hooked) => targetOrganization \in cb[c].orgs
       /\ cb[c].why = "notMember"
            => /\ targetOrganization \notin cb[c].orgs
               /\ ~cb[c].hooked /\ ~cb[c].authed
               /\ cb[c].newSid = 0
               /\ sess[cb[c].sid].user = 0

\* A user who belongs to another organization only was turned away.
MemberOfOtherOrganizationRefused ==
  \E c \in Callbacks :
    /\ targetOrganization # NoOrg
    /\ cb[c].pc = "done" /\ cb[c].why = "notMember" /\ cb[c].resp = 302
    /\ cb[c].orgs # {} /\ targetOrganization \notin cb[c].orgs
    /\ cb[c].exchanged /\ ~cb[c].authed

\* C23: a callback whose provider authentication raised an error (the token
\* exchange or the membership lookup failed) is answered with a redirect to
\* the failure path, leaves its session unauthenticated and is not retried.
AuthErrorRedirectsToFailurePath ==
  \A c \in Callbacks :
    cb[c].why = "error"
    => /\ cb[c].pc = "done"
       /\ cb[c].resp = 302
       /\ ~cb[c].authed /\ cb[c].newSid = 0
       /\ sess[cb[c].sid].user = 0

\* C24: a successful callback redirects to the returnTo that the initiate
\* which issued its nonce stored in the session, or to the configured
\* default when that initiate stored none.
RedirectsToReturnToOfSameFlow ==
  \A c \in Callbacks :
    (cb[c].authed /\ cb[c].seen \in Nonces)
    => cb[c].to = IF asked[cb[c].seen] # NoReturn THEN asked[cb[c].seen]
                  ELSE DefaultReturnTo

PassedNonceNotReplayable ==
  [][\A c \in Callbacks :
       (cb[c].pc = "idle" /\ cb'[c].exchanged) => cb'[c].state \notin passed]_vars

\* C6: a callback rejected for a state mismatch clears the stored nonce from
\* the session as part of the rejection.
MismatchClearsNonce ==
  [][\A c \in Callbacks :
       (cb[c].pc = "idle" /\ cb'[c].pc = "done" /\ cb'[c].why = "mismatch")
       => sess'[cb'[c].sid].oauthState = Absent
    ]_vars

====
